---- MODULE Spec2Model ----
(***************************************************************************)
(* A model of html_writer.py: the Indent enum, the _HtmlLine objects, the  *)
(* Html document (a deque of references to _HtmlLine objects plus a        *)
(* string buffer), its operations and the tag context manager.             *)
(*                                                                         *)
(* Strings are sequences of one-character strings, so that concatenation,  *)
(* the indentation prefix and the line terminator are computed as the code *)
(* computes them.  _HtmlLine objects live in a heap and a document holds   *)
(* references to them, as in Python.                                       *)
(***************************************************************************)
EXTENDS Integers, Sequences, FiniteSets, TLC

\* heap, docs: the memory (see class Html below); stack: the tag scopes that
\* are open, innermost last; pc: "run", or "raising" while an exception
\* propagates; left: the number of calls the run may still make; last: the
\* last call, its arguments, the memory before it and its outcome; seed: the
\* arguments the documents were constructed with
VARIABLES heap, docs, stack, pc, left, last, seed
vars == <<heap, docs, stack, pc, left, last, seed>>

\* ---------------------------------------------------------------- bounds
\* number of state-changing calls of a run on two documents
MaxOps == 2
\* number of string writes, scope entries and failures of a run of tag scopes
MaxScopedOps == 4
\* longest pending text a string write may build
MaxBuf == 2
\* integers passed as indent range over -MaxIntArg .. MaxIntArg
MaxIntArg == 2
\* indent_size ranges over 1 .. MaxIndentSize
MaxIndentSize == 2
\* deepest nesting of tag scopes
MaxDepth == 2
MaxBuildOps == 4

\* ---------------------------------------------------------------- inputs
DocIds == {1, 2}
\* the documents tag scopes and appends are applied to
TargetIds == {1}
EmptyStr == <<>>
Strs == {<<"x">>}
Texts == {<<"x">>, <<"y">>}
TagNames == {<<"a">>, <<"b">>}
IndentSizes == 1..MaxIndentSize
IntArgs == (0 - MaxIntArg)..MaxIntArg

\* ------------------------------------------------------------ class Indent
Indent == {"dedent", "nothing", "indent"}

from_int(val) ==
    IF val > 0 THEN "indent"
    ELSE IF val < 0 THEN "dedent"
    ELSE "nothing"

to_int(self) ==
    IF self = "indent" THEN 1
    ELSE IF self = "dedent" THEN 0 - 1
    ELSE 0

\* Indent.__add__ with other an Indent (the only way the module calls it)
Indent_add(self, other) == from_int(to_int(self) + to_int(other))

\* an argument of newline(indent=...): an Indent member or an int
EnumArg(v) == [kind |-> "enum", v |-> v, n |-> 0]
IntArg(n) == [kind |-> "int", v |-> "nothing", n |-> n]

\* ---------------------------------------------------------- class _HtmlLine
HtmlLine(line, indent) == [line |-> line, indent |-> indent]

\* ---------------------------------------------------------------- class Html
\* The memory of a run: heap[i] is the _HtmlLine object with reference i,
\* docs[d] the Html object d, exc the exception being raised ("none": none).
NoDoc == [inner_html |-> <<>>, buffer |-> EmptyStr]

\* the argument of Html(content): None, a str or a sequence of str
NoneContent == [kind |-> "none", v |-> <<>>]
StrContent(s) == [kind |-> "str", v |-> s]
SeqContent(ss) == [kind |-> "seq", v |-> ss]
Contents == {NoneContent, StrContent(<<"x">>), SeqContent(<< EmptyStr, <<"x">> >>)}

Html_init(st, d, content) ==
    LET contents == IF content.kind = "none" THEN <<>>
                    ELSE IF content.kind = "str" THEN <<content.v>>
                    ELSE content.v
        n == Len(st.heap)
    IN [st EXCEPT
          !.heap = @ \o [i \in 1..Len(contents) |-> HtmlLine(contents[i], "nothing")],
          !.docs[d] = [inner_html |-> [i \in 1..Len(contents) |-> n + i],
                       buffer |-> EmptyStr]]

\* newline with line 116 assigning the delta instead of adding it
newline_assigns(st, d, force, indent) ==
    LET ind == IF indent.kind = "int" THEN from_int(indent.n) ELSE indent.v
        doc == st.docs[d]
        n == Len(doc.inner_html)
    IN IF ~force /\ Len(doc.buffer) = 0 /\ n > 0
       THEN [st EXCEPT !.heap[doc.inner_html[n]].indent = ind]
       ELSE [st EXCEPT !.heap = Append(@, HtmlLine(doc.buffer, ind)),
                       !.docs[d].inner_html = Append(@, Len(st.heap) + 1),
                       !.docs[d].buffer = EmptyStr]

newline(st, d, force, indent) ==
    LET ind == IF indent.kind = "int" THEN from_int(indent.n) ELSE indent.v
        doc == st.docs[d]
        n == Len(doc.inner_html)
    IN IF ~force /\ Len(doc.buffer) = 0 /\ n > 0
       THEN [st EXCEPT !.heap[doc.inner_html[n]].indent = Indent_add(@, ind)]
       ELSE [st EXCEPT !.heap = Append(@, HtmlLine(doc.buffer, ind)),
                       !.docs[d].inner_html = Append(@, Len(st.heap) + 1),
                       !.docs[d].buffer = EmptyStr]

\* ' ' * n
Spaces(n) == [i \in 1..n |-> " "]

RECURSIVE to_raw_html_loop(_, _, _, _, _, _)
to_raw_html_loop(st, d, indent_size, i, indent, return_str) ==
    LET inner == st.docs[d].inner_html
    IN IF i > Len(inner)
       THEN [exc |-> "none", at |-> 0,
             ret |-> return_str \o Spaces(indent_size) \o st.docs[d].buffer \o <<"\n">>]
       ELSE LET html_line == st.heap[inner[i]]
                str == return_str \o Spaces(indent_size * indent)
                          \o html_line.line \o <<"\n">>
                ind == indent + to_int(html_line.indent)
            IN IF ind < 0
               THEN [exc |-> "WriteOutError", at |-> i, ret |-> EmptyStr]
               ELSE to_raw_html_loop(st, d, indent_size, i + 1, ind, str)

\* to_raw_html testing the level before it adds the line's delta
RECURSIVE to_raw_html_loop_tests_first(_, _, _, _, _, _)
to_raw_html_loop_tests_first(st, d, indent_size, i, indent, return_str) ==
    LET inner == st.docs[d].inner_html
    IN IF i > Len(inner)
       THEN [exc |-> "none", at |-> 0,
             ret |-> return_str \o Spaces(indent_size) \o st.docs[d].buffer \o <<"\n">>]
       ELSE LET html_line == st.heap[inner[i]]
            IN IF indent < 0
               THEN [exc |-> "WriteOutError", at |-> i, ret |-> EmptyStr]
               ELSE to_raw_html_loop_tests_first(
                        st, d, indent_size, i + 1, indent + to_int(html_line.indent),
                        return_str \o Spaces(indent_size * indent)
                           \o html_line.line \o <<"\n">>)

to_raw_html_tests_first(st, d, indent_size) ==
    to_raw_html_loop_tests_first(st, d, indent_size, 1, 0, EmptyStr)

\* the result of to_raw_html: exc the exception raised ("none": it returned
\* ret), at the index of the line whose delta made it raise
to_raw_html(st, d, indent_size) ==
    to_raw_html_loop(st, d, indent_size, 1, 0, EmptyStr)

\* __iadd__ with other a str, putting other before the buffer
iadd_str_prepends(st, self, other) == [st EXCEPT !.docs[self].buffer = other \o @]

\* __iadd__ with other a str
iadd_str(st, self, other) == [st EXCEPT !.docs[self].buffer = @ \o other]

\* the for loop of __iadd__ over other's deque: the deque iterator raises
\* RuntimeError when the deque was appended to since the loop began (n0 is
\* its length then), which happens only when other is self
RECURSIVE iadd_loop(_, _, _, _, _)
iadd_loop(st, self, other, i, n0) ==
    IF Len(st.docs[other].inner_html) # n0
    THEN [st EXCEPT !.exc = "RuntimeError"]
    ELSE IF i > n0
    THEN st
    ELSE LET line == st.heap[st.docs[other].inner_html[i]]
             s1 == [st EXCEPT !.docs[self].buffer = line.line]
         IN iadd_loop(newline(s1, self, FALSE, EnumArg(line.indent)),
                      self, other, i + 1, n0)

\* the for loop of __iadd__ appending the _HtmlLine object of other itself
\* where newline makes a new one
RECURSIVE iadd_loop_shares(_, _, _, _, _)
iadd_loop_shares(st, self, other, i, n0) ==
    IF Len(st.docs[other].inner_html) # n0
    THEN [st EXCEPT !.exc = "RuntimeError"]
    ELSE IF i > n0
    THEN st
    ELSE LET ref == st.docs[other].inner_html[i]
             line == st.heap[ref]
             s1 == [st EXCEPT !.docs[self].buffer = line.line]
         IN IF Len(line.line) = 0 /\ Len(st.docs[self].inner_html) > 0
            THEN iadd_loop_shares(newline(s1, self, FALSE, EnumArg(line.indent)),
                                  self, other, i + 1, n0)
            ELSE iadd_loop_shares([st EXCEPT !.docs[self].inner_html = Append(@, ref),
                                             !.docs[self].buffer = EmptyStr],
                                  self, other, i + 1, n0)

\* __iadd__ with other an Html, self taking the line objects of other
iadd_html_shares(st, self, other) ==
    LET s1 == newline(st, self, FALSE, EnumArg("nothing"))
        s2 == iadd_loop_shares(s1, self, other, 1, Len(s1.docs[other].inner_html))
    IN IF s2.exc # "none"
       THEN s2
       ELSE [s2 EXCEPT !.docs[self].buffer = s2.docs[other].buffer]

\* __iadd__ with other an Html, without the newline() of line 150
iadd_html_no_commit(st, self, other) ==
    LET s2 == iadd_loop(st, self, other, 1, Len(st.docs[other].inner_html))
    IN IF s2.exc # "none"
       THEN s2
       ELSE [s2 EXCEPT !.docs[self].buffer = s2.docs[other].buffer]

\* __iadd__ with other an Html
iadd_html(st, self, other) ==
    LET s1 == newline(st, self, FALSE, EnumArg("nothing"))
        s2 == iadd_loop(s1, self, other, 1, Len(s1.docs[other].inner_html))
    IN IF s2.exc # "none"
       THEN s2
       ELSE [s2 EXCEPT !.docs[self].buffer = s2.docs[other].buffer]

\* _get_open_and_close_tags(name) with id_, classes, styles, attributes None
get_open_and_close_tags(name) ==
    << <<"<">> \o name \o <<">">>, <<"<", "/">> \o name \o <<">">> >>

\* tag(): the code before the yield
tag_enter(st, d, name) ==
    LET open_tag == get_open_and_close_tags(name)[1]
        s1 == newline(st, d, FALSE, EnumArg("nothing"))
        s2 == iadd_str(s1, d, open_tag)
    IN newline(s2, d, FALSE, EnumArg("indent"))

\* the finally block of tag() without the dedent of line 81
tag_exit_no_dedent(st, d, close_tag) ==
    LET s1 == newline(st, d, FALSE, EnumArg("nothing"))
        s2 == iadd_str(s1, d, close_tag)
    IN newline(s2, d, FALSE, EnumArg("nothing"))

\* tag(): the finally block
tag_exit(st, d, close_tag) ==
    LET s1 == newline(st, d, FALSE, EnumArg("dedent"))
        s2 == iadd_str(s1, d, close_tag)
    IN newline(s2, d, FALSE, EnumArg("nothing"))

\* enclose_with_tag(name): appendleft puts a new _HtmlLine object first
enclose_with_tag(st, d, name) ==
    LET tags == get_open_and_close_tags(name)
        s0 == [st EXCEPT !.heap = Append(@, HtmlLine(tags[1], "indent")),
                         !.docs[d].inner_html = <<Len(st.heap) + 1>> \o @]
        s1 == newline(s0, d, FALSE, EnumArg("dedent"))
        s2 == iadd_str(s1, d, tags[2])
    IN newline(s2, d, FALSE, EnumArg("nothing"))

\* a copy that has its own deque and shares the _HtmlLine objects of d
deepcopy_shallow(st, d) ==
    [st EXCEPT !.docs = Append(@, [inner_html |-> st.docs[d].inner_html,
                                   buffer |-> st.docs[d].buffer])]

\* copy.deepcopy of the Html object d: a new Html object, the last of docs,
\* with a new _HtmlLine object for every line of d and the same buffer
deepcopy(st, d) ==
    LET inner == st.docs[d].inner_html
        n == Len(st.heap)
    IN [st EXCEPT
          !.heap = @ \o [i \in 1..Len(inner) |-> st.heap[inner[i]]],
          !.docs = Append(@, [inner_html |-> [i \in 1..Len(inner) |-> n + i],
                              buffer |-> st.docs[d].buffer])]

\* the argument of + and +=: a str or an Html
StrOther(s) == [kind |-> "str", s |-> s, d |-> 0]
HtmlOther(d) == [kind |-> "html", s |-> EmptyStr, d |-> d]

\* operator.iadd(self, other)
iadd(st, self, other) ==
    IF other.kind = "str" THEN iadd_str(st, self, other.s)
    ELSE iadd_html(st, self, other.d)

\* __add__ appending to self before it takes the copy
add_appends_to_self(st, self, other) == deepcopy(iadd(st, self, other), self)

\* __add__: the Html object it returns is the last of docs
add(st, self, other) == iadd(deepcopy(st, self), Len(st.docs) + 1, other)

\* '<!DOCTYPE html>', 'html', 'head', 'body'
Doctype == <<"<", "!", "D", "O", "C", "T", "Y", "P", "E", " ", "h", "t", "m", "l", ">">>
HtmlName == <<"h", "t", "m", "l">>
HeadName == <<"h", "e", "a", "d">>
BodyName == <<"b", "o", "d", "y">>

\* html_template(head, body): the Html object it returns is the last of
\* docs; no statement of its with blocks raises, head and body being other
\* objects than return_html, so each finally block runs after its body
html_template(st, head, body) ==
    LET r == Len(st.docs) + 1
        s0 == Html_init([st EXCEPT !.docs = Append(@, NoDoc)], r, StrContent(Doctype))
        s1 == tag_enter(s0, r, HtmlName)
        s2 == tag_enter(s1, r, HeadName)
        s3 == iadd(s2, r, head)
        s4 == tag_exit(s3, r, get_open_and_close_tags(HeadName)[2])
        s5 == tag_enter(s4, r, BodyName)
        s6 == iadd(s5, r, body)
        s7 == tag_exit(s6, r, get_open_and_close_tags(BodyName)[2])
    IN tag_exit(s7, r, get_open_and_close_tags(HtmlName)[2])

\* ------------------------------------------------------------------ state
Cur == [heap |-> heap, docs |-> docs, exc |-> "none"]

NoLast ==
    [op |-> "init", d |-> 0, o |-> 0, force |-> FALSE, indent |-> EnumArg("nothing"),
     s |-> EmptyStr, t |-> EmptyStr, size |-> 0, val |-> 0, new |-> 0, after |-> {},
     pre |-> [heap |-> <<>>, docs |-> <<>>], entry |-> [heap |-> <<>>, docs |-> <<>>],
     touched |-> FALSE, exc |-> "none", at |-> 0, ret |-> EmptyStr]

Snapshot == [heap |-> heap, docs |-> docs]

\* the record of a call: after holds the calls of the run that came before
\* it and that later calls are compared against
Call == [NoLast EXCEPT !.after = last.after]

\* the memory after a call that ended in memory r
Store(r) ==
    /\ heap' = r.heap
    /\ docs' = r.docs
    /\ pc' = IF r.exc # "none" THEN "raising" ELSE pc
    /\ UNCHANGED seed

\* a call inside the open scopes is a write inside each of them
Touch(stk) == [i \in DOMAIN stk |-> [stk[i] EXCEPT !.touched = TRUE]]

\* Document 1 as constructed; document 2, the fragment handed to document 1,
\* as constructed and then given its pending text b.
Init ==
    /\ \E c1 \in Contents, c2 \in Contents, b \in {EmptyStr} \cup Strs :
          LET s0 == [heap |-> <<>>, docs |-> [d \in DocIds |-> NoDoc], exc |-> "none"]
              s2 == iadd_str(Html_init(Html_init(s0, 1, c1), 2, c2), 2, b)
          IN heap = s2.heap /\ docs = s2.docs /\ seed = <<c1, c2>>
    /\ stack = <<>>
    /\ pc = "run"
    /\ left = MaxOps
    /\ last = NoLast

\* d += s, s a str
Write(d, s) ==
    /\ pc = "run" /\ left > 0
    /\ Len(docs[d].buffer) + Len(s) <= MaxBuf
    /\ Store(iadd_str(Cur, d, s))
    /\ stack' = Touch(stack)
    /\ left' = left - 1
    /\ last' = [Call EXCEPT !.op = "iadd_str", !.d = d, !.s = s, !.pre = Snapshot]

\* d.newline(force, indent)
Newline(d, force, indent) ==
    /\ pc = "run" /\ left > 0
    /\ Store(newline(Cur, d, force, indent))
    /\ stack' = Touch(stack)
    /\ left' = left - 1
    /\ last' = [Call EXCEPT !.op = "newline", !.d = d, !.force = force,
                              !.indent = indent, !.pre = Snapshot]

\* d += o, o an Html
IaddHtml(d, o) ==
    /\ pc = "run" /\ left > 0
    /\ LET r == iadd_html(Cur, d, o)
       IN /\ Store(r)
          /\ last' = [Call EXCEPT !.op = "iadd_html", !.d = d, !.o = o,
                                    !.pre = Snapshot, !.exc = r.exc,
                                    !.after = IF d # o THEN @ \cup {<<"iadd", d, o>>}
                                              ELSE @]
    /\ stack' = Touch(stack)
    /\ left' = left - 1

\* d.to_raw_html(indent_size): reads only
ToRawHtml(d, indent_size) ==
    /\ pc = "run"
    /\ LET r == to_raw_html(Cur, d, indent_size)
       IN /\ pc' = IF r.exc # "none" THEN "raising" ELSE pc
          /\ last' = [Call EXCEPT !.op = "to_raw_html", !.d = d, !.size = indent_size,
                                    !.pre = Snapshot, !.exc = r.exc, !.at = r.at,
                                    !.ret = r.ret]
    /\ UNCHANGED <<heap, docs, stack, left, seed>>

\* Indent.from_int(val): reads only
FromInt(val) ==
    /\ pc = "run"
    /\ last' = [Call EXCEPT !.op = "from_int", !.val = val, !.pre = Snapshot,
                              !.indent = EnumArg(from_int(val))]
    /\ UNCHANGED <<heap, docs, stack, pc, left, seed>>

\* with d.tag(name): entering the block
TagEnter(d, name) ==
    /\ pc = "run" /\ left > 0 /\ Len(stack) < MaxDepth
    /\ Store(tag_enter(Cur, d, name))
    /\ stack' = Append(Touch(stack),
                       [doc |-> d, name |-> name,
                        close_tag |-> get_open_and_close_tags(name)[2],
                        entry |-> Snapshot, touched |-> FALSE])
    /\ left' = left - 1
    /\ last' = [Call EXCEPT !.op = "tag_enter", !.d = d, !.s = name, !.pre = Snapshot]

\* leaving the innermost with block when tag() has no try/finally: the code
\* after the yield runs only when the body finished
TagExit_no_finally ==
    /\ stack # <<>>
    /\ LET f == stack[Len(stack)]
       IN /\ Store(IF pc = "raising" THEN Cur ELSE tag_exit(Cur, f.doc, f.close_tag))
          /\ last' = [Call EXCEPT !.op = "tag_exit", !.d = f.doc, !.s = f.name,
                                    !.pre = Snapshot, !.entry = f.entry,
                                    !.touched = f.touched,
                                    !.exc = IF pc = "raising" THEN "body" ELSE "none"]
    /\ stack' = Touch(SubSeq(stack, 1, Len(stack) - 1))
    /\ UNCHANGED left

\* leaving the innermost with block, its body finished (pc = "run") or
\* failed (pc = "raising"): the finally block runs, the exception goes on
TagExit ==
    /\ stack # <<>>
    /\ LET f == stack[Len(stack)]
       IN /\ Store(tag_exit(Cur, f.doc, f.close_tag))
          /\ last' = [Call EXCEPT !.op = "tag_exit", !.d = f.doc, !.s = f.name,
                                    !.pre = Snapshot, !.entry = f.entry,
                                    !.touched = f.touched,
                                    !.exc = IF pc = "raising" THEN "body" ELSE "none"]
    /\ stack' = Touch(SubSeq(stack, 1, Len(stack) - 1))
    /\ UNCHANGED left

\* the caller's code in a with block raises
BodyRaise ==
    /\ pc = "run" /\ left > 0 /\ stack # <<>>
    /\ pc' = "raising"
    /\ left' = left - 1
    /\ last' = [Call EXCEPT !.op = "raise", !.pre = Snapshot, !.exc = "body"]
    /\ UNCHANGED <<heap, docs, stack, seed>>

\* the caller catches the exception, outside every with block
Catch ==
    /\ pc = "raising" /\ stack = <<>>
    /\ pc' = "run"
    /\ last' = [Call EXCEPT !.op = "catch", !.pre = Snapshot]
    /\ UNCHANGED <<heap, docs, stack, left, seed>>

Next ==
    \/ \E d \in DocIds, s \in Strs : Write(d, s)
    \/ \E d \in DocIds, force \in BOOLEAN, v \in Indent : Newline(d, force, EnumArg(v))
    \/ \E d \in TargetIds, force \in BOOLEAN, n \in IntArgs : Newline(d, force, IntArg(n))
    \/ \E d \in TargetIds, o \in DocIds : IaddHtml(d, o)
    \/ \E d \in TargetIds, n \in IndentSizes : ToRawHtml(d, n)
    \/ \E v \in IntArgs : FromInt(v)
    \/ \E d \in TargetIds, name \in TagNames : TagEnter(d, name)
    \/ TagExit
    \/ BodyRaise
    \/ Catch

Spec == Init /\ [][Next]_vars

\* c = d.deepcopy(): c is the new document last.new
Deepcopy(d) ==
    /\ pc = "run" /\ left > 0
    /\ Store(deepcopy(Cur, d))
    /\ left' = left - 1
    /\ last' = [Call EXCEPT !.op = "deepcopy", !.d = d, !.new = Len(docs) + 1,
                            !.pre = Snapshot,
                            !.after = @ \cup {<<"deepcopy", d, Len(docs) + 1>>}]
    /\ UNCHANGED stack

\* c = a + other, other a str or an Html: c is the new document last.new
Add(a, other) ==
    /\ pc = "run" /\ left > 0
    /\ LET r == add(Cur, a, other)
       IN /\ Store(r)
          /\ last' = [Call EXCEPT !.op = "add", !.d = a, !.o = other.d, !.s = other.s,
                                  !.new = Len(docs) + 1, !.pre = Snapshot,
                                  !.exc = r.exc]
    /\ left' = left - 1
    /\ UNCHANGED stack

\* d.enclose_with_tag(name)
EncloseWithTag(d, name) ==
    /\ pc = "run" /\ left > 0
    /\ Store(enclose_with_tag(Cur, d, name))
    /\ stack' = Touch(stack)
    /\ left' = left - 1
    /\ last' = [Call EXCEPT !.op = "enclose", !.d = d, !.s = name, !.pre = Snapshot]

\* A run that also copies and concatenates documents; every document of the
\* run, the new ones included, is written to.
NextCopy ==
    \/ \E d \in DOMAIN docs, s \in Strs : Write(d, s)
    \/ \E d \in DOMAIN docs, force \in BOOLEAN, v \in Indent : Newline(d, force, EnumArg(v))
    \/ \E d \in DOMAIN docs, o \in DOMAIN docs : IaddHtml(d, o)
    \/ \E d \in DOMAIN docs : Deepcopy(d)
    \/ \E a \in DOMAIN docs, s \in Strs : Add(a, StrOther(s))
    \/ \E a \in DOMAIN docs, b \in DOMAIN docs : Add(a, HtmlOther(b))
    \/ \E d \in DOMAIN docs, name \in TagNames : TagEnter(d, name)
    \/ \E d \in DOMAIN docs, name \in TagNames : EncloseWithTag(d, name)
    \/ TagExit

SpecCopy == Init /\ [][NextCopy]_vars

\* t = Html.html_template(head, body): t is the new document last.new
HtmlTemplate(head, body) ==
    /\ pc = "run" /\ left > 0
    /\ LET r == html_template(Cur, head, body)
       IN /\ Store(r)
          /\ last' = [Call EXCEPT !.op = "html_template", !.d = head.d, !.s = head.s,
                                  !.o = body.d, !.t = body.s,
                                  !.new = Len(docs) + 1, !.pre = Snapshot,
                                  !.exc = r.exc]
    /\ left' = left - 1
    /\ UNCHANGED stack

\* A run that builds document 1 line by line, wraps it, and hands it as a
\* fragment to html_template; document 2 stays the empty document.
InitBuild ==
    /\ \E c1 \in Contents :
          LET s0 == [heap |-> <<>>, docs |-> [d \in DocIds |-> NoDoc], exc |-> "none"]
              s2 == Html_init(Html_init(s0, 1, c1), 2, NoneContent)
          IN heap = s2.heap /\ docs = s2.docs /\ seed = <<c1, NoneContent>>
    /\ stack = <<>>
    /\ pc = "run"
    /\ left = MaxBuildOps
    /\ last = NoLast

NextBuild ==
    \/ \E d \in TargetIds, s \in Strs : Write(d, s)
    \/ \E d \in TargetIds, force \in BOOLEAN, v \in Indent : Newline(d, force, EnumArg(v))
    \/ \E d \in TargetIds, name \in TagNames : EncloseWithTag(d, name)
    \/ \E s \in Strs, b \in TargetIds : HtmlTemplate(StrOther(s), HtmlOther(b))
    \/ \E h \in DocIds, s \in Strs : HtmlTemplate(HtmlOther(h), StrOther(s))

SpecBuild == InitBuild /\ [][NextBuild]_vars

\* A run that writes strings of different texts to the two documents and
\* commits lines of document 1.
NextText ==
    \/ \E d \in DocIds, s \in Texts : Write(d, s)
    \/ \E d \in TargetIds, force \in BOOLEAN, v \in Indent : Newline(d, force, EnumArg(v))

SpecText == InitBuild /\ [][NextText]_vars

\* A run that only writes strings to one document and opens tag scopes on
\* it; a with block whose body has finished or failed runs its finally block.
InitScoped ==
    /\ \E c1 \in Contents :
          LET s0 == [heap |-> <<>>, docs |-> [d \in DocIds |-> NoDoc], exc |-> "none"]
              s2 == Html_init(Html_init(s0, 1, c1), 2, NoneContent)
          IN heap = s2.heap /\ docs = s2.docs /\ seed = <<c1, NoneContent>>
    /\ stack = <<>>
    /\ pc = "run"
    /\ left = MaxScopedOps
    /\ last = NoLast

NextScoped ==
    \/ \E d \in TargetIds, s \in Strs : Write(d, s)
    \/ \E d \in TargetIds, name \in TagNames : TagEnter(d, name)
    \/ TagExit
    \/ BodyRaise
    \/ Catch

SpecScoped == InitScoped /\ [][NextScoped]_vars /\ WF_vars(TagExit)

\* ------------------------------------------------------- reading a memory
\* the committed lines of document d in memory m, in order
Lines(m, d) ==
    [i \in 1..Len(m.docs[d].inner_html) |-> m.heap[m.docs[d].inner_html[i]]]

\* the sum of the deltas of the first k lines of ls
RECURSIVE SumTo(_, _)
SumTo(ls, k) == IF k = 0 THEN 0 ELSE SumTo(ls, k - 1) + to_int(ls[k].indent)

\* the running level when line i of ls is emitted
Level(ls, i) == SumTo(ls, i - 1)

NegativePrefixes(ls) == {k \in 1..Len(ls) : SumTo(ls, k) < 0}

Min(S) == CHOOSE k \in S : \A j \in S : k <= j

\* the lines of a rendered string, without their terminators
RECURSIVE SplitFrom(_, _, _, _)
SplitFrom(out, i, cur, acc) ==
    IF i > Len(out) THEN (IF cur = <<>> THEN acc ELSE Append(acc, cur))
    ELSE IF out[i] = "\n" THEN SplitFrom(out, i + 1, <<>>, Append(acc, cur))
    ELSE SplitFrom(out, i + 1, Append(cur, out[i]), acc)

SplitLines(out) == SplitFrom(out, 1, <<>>, <<>>)

RECURSIVE LeadingSpaces(_)
LeadingSpaces(l) ==
    IF l # <<>> /\ Head(l) = " " THEN 1 + LeadingSpaces(Tail(l)) ELSE 0

OpenTags == {get_open_and_close_tags(name)[1] : name \in TagNames}
CloseTags == {get_open_and_close_tags(name)[2] : name \in TagNames}

\* the number of lines of ls before line i whose text is in S
CountBefore(ls, i, S) == Cardinality({j \in 1..(i - 1) : ls[j].line \in S})

\* the number of tag scopes open around line i of ls, read off the tag lines
DepthAt(ls, i) == CountBefore(ls, i, OpenTags) - CountBefore(ls, i, CloseTags)

\* the names of the tags of ls that are opened and not closed, outermost
\* first; <<"mismatch">> when a close tag does not close the innermost one
RECURSIVE OpenNames(_, _, _)
OpenNames(ls, i, acc) ==
    IF i > Len(ls) THEN acc
    ELSE IF ls[i].line \in OpenTags
    THEN OpenNames(ls, i + 1,
                   Append(acc, CHOOSE name \in TagNames :
                                  get_open_and_close_tags(name)[1] = ls[i].line))
    ELSE IF ls[i].line \in CloseTags
    THEN IF acc # <<>> /\ get_open_and_close_tags(acc[Len(acc)])[2] = ls[i].line
         THEN OpenNames(ls, i + 1, SubSeq(acc, 1, Len(acc) - 1))
         ELSE << <<"mismatch">> >>
    ELSE OpenNames(ls, i + 1, acc)

\* ------------------------------------------------------------------ claims
ScopedLines == Lines(Cur, 1)
NumOpenTagLines == CountBefore(ScopedLines, Len(ScopedLines) + 1, OpenTags)
NumCloseTagLines == CountBefore(ScopedLines, Len(ScopedLines) + 1, CloseTags)

\* C1: in a run of string writes and properly nested tag scopes on an empty
\* or seeded document, whenever no scope is open every prefix sum of the
\* committed lines' deltas is >= 0, the sum over all committed lines is 0,
\* and to_raw_html does not raise.
C1_BalancedAfterScopes ==
    stack = <<>> =>
        /\ \A k \in 1..Len(ScopedLines) : SumTo(ScopedLines, k) >= 0
        /\ SumTo(ScopedLines, Len(ScopedLines)) = 0
        /\ \A n \in IndentSizes : to_raw_html(Cur, 1, n).exc = "none"

\* two nested scopes with text inside have exited
C1_Witness ==
    /\ stack = <<>> /\ last.op = "tag_exit"
    /\ NumCloseTagLines >= 2
    /\ \E i \in 1..Len(ScopedLines) :
          ScopedLines[i].line \in Strs /\ ScopedLines[i].indent = "dedent"
    /\ \E i \in 1..Len(ScopedLines) :
          ScopedLines[i].line \in CloseTags /\ ScopedLines[i].indent = "dedent"

C2_ScopesMatch ==
    /\ OpenNames(ScopedLines, 1, <<>>) = [i \in DOMAIN stack |-> stack[i].name]
    /\ NumCloseTagLines <= NumOpenTagLines
    /\ stack = <<>> => NumCloseTagLines = NumOpenTagLines
    /\ last.op = "tag_exit" =>
          LET n == Len(ScopedLines)
              before == Lines(last.pre, 1)
          IN /\ ScopedLines[n].line = get_open_and_close_tags(last.s)[2]
             /\ ScopedLines[n].indent = "nothing"
             /\ SumTo(ScopedLines, n) = SumTo(before, Len(before)) - 1

\* C2: the exit sequence of an entered tag scope runs, once, whether its body
\* finishes or fails: every open scope is eventually left (the scope at
\* depth k, for every k); the close-tag lines close the open-tag lines in
\* reverse order (the unclosed open tags are exactly the open scopes), never
\* outnumber them and equal them in number once no scope is open; the exit
\* commits the close-tag text with delta Nothing after a Dedent.
C2_GuaranteedClose ==
    /\ []C2_ScopesMatch
    /\ \A k \in 1..MaxDepth : (Len(stack) >= k) ~> (Len(stack) < k)

\* two nested scopes were left while an exception propagated
C2_Witness ==
    /\ stack = <<>> /\ pc = "raising" /\ last.op = "tag_exit" /\ last.exc = "body"
    /\ NumCloseTagLines >= 2

\* the level a line of ls is to be rendered at by its nesting depth
NestingLevel(ls, i) ==
    IF ls[i].line \in CloseTags THEN DepthAt(ls, i) - 1 ELSE DepthAt(ls, i)

\* the committed tag and text lines are rendered at their nesting depth
CommittedLinesAtNestingDepth ==
    \A n \in IndentSizes :
        LET r == to_raw_html(Cur, 1, n)
            out == SplitLines(r.ret)
        IN /\ r.exc = "none"
           /\ Len(out) = Len(ScopedLines) + 1
           /\ \A i \in 1..Len(ScopedLines) :
                 ScopedLines[i].line # EmptyStr =>
                    LeadingSpaces(out[i]) = n * NestingLevel(ScopedLines, i)

\* C7: in a document built from an empty document with tag scopes and
\* non-empty string writes, a text line written inside k open scopes is
\* rendered with indent_size * k leading spaces, and the open-tag and
\* close-tag lines of a scope inside k - 1 others with indent_size * (k - 1).
C7_RenderDepthEqualsNestingDepth ==
    (seed[1] = NoneContent /\ NumOpenTagLines >= 1) =>
        /\ CommittedLinesAtNestingDepth
        /\ \A n \in IndentSizes :
              LET out == SplitLines(to_raw_html(Cur, 1, n).ret)
              IN docs[1].buffer # EmptyStr =>
                    LeadingSpaces(out[Len(out)]) = n * Len(stack)

\* the committed lines of the document of the last call, before and after it
PreLines == Lines(last.pre, last.d)
PostLines == Lines(Cur, last.d)

\* C3: to_raw_html raises WriteOutError if and only if some prefix of the
\* committed lines has a negative sum of deltas; it raises at the first such
\* prefix and returns nothing; with no negative prefix it returns a string.
C3_RaisesIffNegativePrefix ==
    last.op = "to_raw_html" =>
        LET neg == NegativePrefixes(PreLines)
        IN /\ (last.exc = "WriteOutError") <=> (neg # {})
           /\ neg # {} => (last.at = Min(neg) /\ pc = "raising" /\ last.ret = EmptyStr)
           /\ neg = {} => (last.exc = "none" /\ pc = "run"
                           /\ Len(last.ret) > 0 /\ last.ret[Len(last.ret)] = "\n")

\* to_raw_html raised at the second line, the first one being at level 0
C3_Witness ==
    /\ last.op = "to_raw_html" /\ last.exc = "WriteOutError" /\ last.at >= 2
    /\ pc = "raising"

\* C4: every line to_raw_html emits, the final line with the pending text
\* included, is indent_size * level spaces followed by its text, level being
\* the sum of the deltas of the committed lines before it; the output has
\* one line more than there are committed lines.
C4_EveryLineIndentedByLevel ==
    (last.op = "to_raw_html" /\ last.exc = "none") =>
        LET out == SplitLines(last.ret)
            n == Len(PreLines)
        IN /\ Len(out) = n + 1
           /\ \A i \in 1..n :
                 out[i] = Spaces(last.size * Level(PreLines, i)) \o PreLines[i].line
           /\ out[n + 1] = Spaces(last.size * Level(PreLines, n + 1))
                              \o last.pre.docs[last.d].buffer

\* the part of C4 about the committed lines and the number of lines
CommittedLinesIndentedByLevel ==
    (last.op = "to_raw_html" /\ last.exc = "none") =>
        LET out == SplitLines(last.ret)
            n == Len(PreLines)
        IN /\ Len(out) = n + 1
           /\ \A i \in 1..n :
                 out[i] = Spaces(last.size * Level(PreLines, i)) \o PreLines[i].line

\* the delta an integer of {-1, 0, 1} stands for
DeltaOf(n) == IF n = 1 THEN "indent" ELSE IF n = 0 - 1 THEN "dedent" ELSE "nothing"

\* C5: Indent.from_int, and newline called with an integer indent, signal an
\* error for every integer outside {-1, 0, 1} (and newline then commits
\* nothing), and map -1, 0, 1 to dedent, nothing, indent.
C5_OutOfRangeIntegerRejected ==
    /\ last.op = "from_int" =>
          IF last.val \in {0 - 1, 0, 1}
          THEN last.exc = "none" /\ last.indent.v = DeltaOf(last.val)
          ELSE last.exc # "none"
    /\ (last.op = "newline" /\ last.indent.kind = "int") =>
          IF last.indent.n \in {0 - 1, 0, 1}
          THEN last.exc = "none"
          ELSE last.exc # "none" /\ Snapshot = last.pre

\* C6: opening a tag scope on a document with empty pending text and leaving
\* it with no write inside adds exactly two committed lines, the open-tag
\* line and the close-tag line, leaves the sum of the deltas unchanged and
\* puts both lines at the same level.
C6_EmptyScopeAddsTwoLines ==
    (last.op = "tag_exit" /\ ~last.touched
        /\ last.entry.docs[last.d].buffer = EmptyStr) =>
        LET before == Lines(last.entry, last.d)
            n == Len(PostLines)
            tags == get_open_and_close_tags(last.s)
        IN /\ n = Len(before) + 2
           /\ PostLines[n - 1].line = tags[1]
           /\ PostLines[n].line = tags[2]
           /\ SumTo(PostLines, n) = SumTo(before, Len(before))
           /\ Level(PostLines, n - 1) = Level(PostLines, n)

\* C8: newline(force, indent) either, when force is false, the pending text
\* is empty and a committed line exists, leaves the lines, their texts, the
\* deltas but the last and the pending text as they are and sets the last
\* line's delta to (old delta + indent); or else appends one line (the old
\* pending text, indent), leaves the earlier lines as they are and empties
\* the pending text.
C8_NewlineMergesOrAppends ==
    (last.op = "newline"
        /\ (last.indent.kind = "int" => last.indent.n \in {0 - 1, 0, 1})) =>
        LET old == last.pre.docs[last.d]
            new == docs[last.d]
            n == Len(PreLines)
            ind == IF last.indent.kind = "int" THEN DeltaOf(last.indent.n)
                   ELSE last.indent.v
        IN IF ~last.force /\ old.buffer = EmptyStr /\ n > 0
           THEN /\ new.inner_html = old.inner_html
                /\ new.buffer = old.buffer
                /\ \A i \in 1..n : PostLines[i].line = PreLines[i].line
                /\ \A i \in 1..(n - 1) : PostLines[i].indent = PreLines[i].indent
                /\ PostLines[n].indent = Indent_add(PreLines[n].indent, ind)
           ELSE /\ Len(PostLines) = n + 1
                /\ \A i \in 1..n : PostLines[i] = PreLines[i]
                /\ PostLines[n + 1] = HtmlLine(old.buffer, ind)
                /\ new.buffer = EmptyStr

\* a dedent was folded into a last line that held an indent
C8_Witness ==
    /\ last.op = "newline" /\ ~last.force /\ last.indent = EnumArg("dedent")
    /\ last.pre.docs[last.d].buffer = EmptyStr
    /\ Len(PreLines) > 0 /\ PreLines[Len(PreLines)].indent = "indent"
    /\ PostLines[Len(PostLines)].indent = "nothing"

\* C9: d += o, o another document: afterwards d's committed lines are its
\* previous committed lines, then one line with its previous pending text if
\* that was non-empty, then one line per committed line of o, in order, with
\* the same text and delta.
C9_AppendSplicesEveryLine ==
    (last.op = "iadd_html" /\ last.d # last.o /\ last.exc = "none") =>
        LET p == PreLines
            q == Lines(last.pre, last.o)
            buf == last.pre.docs[last.d].buffer
            m == IF buf # EmptyStr THEN 1 ELSE 0
        IN /\ Len(PostLines) = Len(p) + m + Len(q)
           /\ \A i \in 1..Len(p) : PostLines[i] = p[i]
           /\ m = 1 => PostLines[Len(p) + 1].line = buf
           /\ \A j \in 1..Len(q) : PostLines[Len(p) + m + j] = q[j]

\* C10: after d += o, o a document, d's pending text is o's pending text, and
\* d's previous pending text, if non-empty, is the text of a committed line
\* of d.
C10_PendingCarriedOver ==
    (last.op = "iadd_html" /\ last.exc = "none") =>
        LET buf == last.pre.docs[last.d].buffer
        IN /\ docs[last.d].buffer = last.pre.docs[last.o].buffer
           /\ buf # EmptyStr =>
                 /\ Len(PostLines) > Len(PreLines)
                 /\ PostLines[Len(PreLines) + 1].line = buf

\* both documents had a pending text
C10_Witness ==
    /\ last.op = "iadd_html" /\ last.d # last.o /\ last.exc = "none"
    /\ last.pre.docs[last.d].buffer = <<"x">>
    /\ last.pre.docs[last.o].buffer = <<"x">>
    /\ docs[last.d].buffer = <<"x">>

\* the state of document d in memory m: its lines, in order, and its buffer
DocState(m, d) == [lines |-> Lines(m, d), buffer |-> m.docs[d].buffer]

\* a memory as the argument of an operation
AsMemory(m) == [heap |-> m.heap, docs |-> m.docs, exc |-> "none"]

\* the argument other of the last call
LastOther == IF last.o = 0 THEN StrOther(last.s) ELSE HtmlOther(last.o)

\* C11: c = a + b, b a str or a document, leaves the committed lines, the
\* deltas and the pending text of every document there was unchanged, so
\* what to_raw_html gives for them is unchanged, and c has the state that
\* a += b gives a (for a + a: the state a += a gives a copy of a).
C11_AddLeavesOperandsUnchanged ==
    last.op = "add" =>
        /\ last.exc = "none"
        /\ \A e \in DOMAIN last.pre.docs :
              /\ DocState(Cur, e) = DocState(last.pre, e)
              /\ \A n \in IndentSizes :
                    to_raw_html(Cur, e, n) = to_raw_html(AsMemory(last.pre), e, n)
        /\ last.new = Len(last.pre.docs) + 1
        /\ IF last.o = last.d
           THEN DocState(Cur, last.new)
                   = DocState(iadd(deepcopy(AsMemory(last.pre), last.d),
                                   last.new, LastOther), last.new)
           ELSE DocState(Cur, last.new)
                   = DocState(iadd(AsMemory(last.pre), last.d, LastOther), last.d)

\* a document with a pending text and another with committed lines were
\* concatenated
C11_Witness ==
    /\ last.op = "add" /\ last.o # 0 /\ last.o # last.d
    /\ last.pre.docs[last.d].buffer # EmptyStr
    /\ Len(Lines(last.pre, last.o)) > 0
    /\ Len(Lines(Cur, last.new)) > Len(Lines(Cur, last.d)) + 1

\* the calls that change the document they are made on
Mutations == {"iadd_str", "newline", "iadd_html", "tag_enter", "tag_exit", "enclose"}

\* document e reads the same in memory m as it did before the last call:
\* the same lines, deltas and pending text, the same result of to_raw_html
SameAsBefore(e) ==
    /\ DocState(Cur, e) = DocState(last.pre, e)
    /\ \A n \in IndentSizes :
          to_raw_html(Cur, e, n) = to_raw_html(AsMemory(last.pre), e, n)

\* C12: after c = d.deepcopy(), every call that changes c (a write, a newline
\* that merges a delta into the last line, a tag scope, enclose_with_tag, an
\* append) leaves the lines, deltas, pending text and render of d as they
\* were, and every call that changes d leaves c as it was.
C12_DeepcopyIndependent ==
    \A p \in last.after :
        (p[1] = "deepcopy" /\ last.op \in Mutations) =>
            /\ last.d = p[3] => SameAsBefore(p[2])
            /\ last.d = p[2] => SameAsBefore(p[3])

\* a newline on the copy has merged a delta into its last line, the copy of
\* a line of the original, and the two documents now differ
C12_Witness ==
    /\ last.op = "newline" /\ ~last.force
    /\ \E p \in last.after :
          /\ p[1] = "deepcopy" /\ p[3] = last.d
          /\ last.pre.docs[last.d].buffer = EmptyStr
          /\ Len(Lines(last.pre, last.d)) > 0
          /\ Lines(Cur, last.d) # Lines(last.pre, last.d)
          /\ Lines(Cur, p[2]) # Lines(Cur, last.d)
\* document d of memory m renders and its deltas sum to 0
Balanced(m, d) ==
    /\ to_raw_html(AsMemory(m), d, 1).exc = "none"
    /\ SumTo(Lines(m, d), Len(Lines(m, d))) = 0

\* the lines of the document after enclose_with_tag(name) are the open tag
\* at level 0, the previous lines and the previous pending text one level
\* deeper, the close tag at level 0; the deltas sum to 0 and it renders
EncloseWraps ==
    LET p == PreLines
        q == PostLines
        buf == last.pre.docs[last.d].buffer
        m == IF buf # EmptyStr THEN 1 ELSE 0
        tags == get_open_and_close_tags(last.s)
    IN /\ Len(q) = Len(p) + m + 2
       /\ q[1].line = tags[1] /\ Level(q, 1) = 0
       /\ q[Len(q)].line = tags[2] /\ Level(q, Len(q)) = 0
       /\ \A i \in 1..Len(p) :
             q[i + 1].line = p[i].line /\ Level(q, i + 1) = Level(p, i) + 1
       /\ m = 1 => /\ q[Len(p) + 2].line = buf
                   /\ Level(q, Len(p) + 2) = SumTo(p, Len(p)) + 1
       /\ docs[last.d].buffer = EmptyStr
       /\ SumTo(q, Len(q)) = 0
       /\ \A n \in IndentSizes : to_raw_html(Cur, last.d, n).exc = "none"

\* C13: d.enclose_with_tag(name) on a document that renders and whose deltas
\* sum to 0: afterwards the first line is the open tag and the last line the
\* close tag, both at level 0, every previous line and the previous pending
\* text are one level deeper than before, and the deltas sum to 0 again.
C13_EncloseWrapsWholeDocument ==
    (last.op = "enclose" /\ Balanced(last.pre, last.d)) => EncloseWraps

\* the same, for the documents where the dedent of line 94 is not merged
\* into a last line whose delta is already dedent
EncloseWrapsUnlessDedentMerged ==
    (/\ last.op = "enclose" /\ Balanced(last.pre, last.d)
     /\ ~(/\ last.pre.docs[last.d].buffer = EmptyStr
          /\ Len(PreLines) > 0
          /\ PreLines[Len(PreLines)].indent = "dedent")) => EncloseWraps
\* the texts of the lines ls with the level each is rendered at
Rows(ls) == [i \in 1..Len(ls) |-> [line |-> ls[i].line, level |-> Level(ls, i)]]

\* the rows that content other of memory m gives when it starts at level k:
\* a str is one row; an Html is its lines, each k levels deeper than in the
\* Html itself, and then its pending text
Shifted(m, other, k) ==
    IF other.kind = "str"
    THEN << [line |-> other.s, level |-> k] >>
    ELSE LET f == Lines(m, other.d)
             buf == m.docs[other.d].buffer
         IN [i \in 1..Len(f) |-> [line |-> f[i].line, level |-> Level(f, i) + k]]
            \o (IF buf # EmptyStr
                THEN << [line |-> buf, level |-> SumTo(f, Len(f)) + k] >>
                ELSE <<>>)

HasText(row) == row.line # EmptyStr

\* the arguments of the last html_template
LastHead == IF last.d = 0 THEN StrOther(last.s) ELSE HtmlOther(last.d)
LastBody == IF last.o = 0 THEN StrOther(last.t) ELSE HtmlOther(last.o)

\* a str, or an Html that renders and whose deltas sum to 0
BalancedContent(m, other) == other.kind = "html" => Balanced(m, other.d)

\* the rows the template is to have for the last html_template
TemplateRows ==
    << [line |-> Doctype, level |-> 0],
       [line |-> get_open_and_close_tags(HtmlName)[1], level |-> 0],
       [line |-> get_open_and_close_tags(HeadName)[1], level |-> 1] >>
    \o Shifted(last.pre, LastHead, 2)
    \o << [line |-> get_open_and_close_tags(HeadName)[2], level |-> 1],
          [line |-> get_open_and_close_tags(BodyName)[1], level |-> 1] >>
    \o Shifted(last.pre, LastBody, 2)
    \o << [line |-> get_open_and_close_tags(BodyName)[2], level |-> 1],
          [line |-> get_open_and_close_tags(HtmlName)[2], level |-> 0] >>

TemplateAsClaimed ==
    /\ last.exc = "none"
    /\ docs[last.new].buffer = EmptyStr
    /\ \A n \in IndentSizes : to_raw_html(Cur, last.new, n).exc = "none"
    /\ SelectSeq(Rows(Lines(Cur, last.new)), HasText) = SelectSeq(TemplateRows, HasText)

\* C14: html_template(head, body), head and body each a str or a balanced
\* Html: the lines with a text of the document it returns are, in order, the
\* DOCTYPE line and <html> at level 0, <head> at level 1, the head content at
\* level 2, </head> and <body> at level 1, the body content two levels
\* deeper than in body itself, </body> at level 1 and </html> at level 0.
C14_TemplateLevels ==
    (/\ last.op = "html_template"
     /\ BalancedContent(last.pre, LastHead)
     /\ BalancedContent(last.pre, LastBody)) => TemplateAsClaimed

\* no delta of the Html content is merged into a line that has a delta of
\* the same sign: its lines without a text have the delta nothing, and its
\* last line has not the delta dedent when its pending text is empty
MergesNothing(m, other) ==
    other.kind = "html" =>
        LET f == Lines(m, other.d)
        IN /\ \A i \in 1..Len(f) : f[i].line = EmptyStr => f[i].indent = "nothing"
           /\ \/ m.docs[other.d].buffer # EmptyStr
              \/ Len(f) = 0
              \/ f[Len(f)].indent # "dedent"

\* the same, for the contents of which no delta is merged
TemplateLevelsUnlessMerged ==
    (/\ last.op = "html_template"
     /\ BalancedContent(last.pre, LastHead) /\ MergesNothing(last.pre, LastHead)
     /\ BalancedContent(last.pre, LastBody) /\ MergesNothing(last.pre, LastBody))
        => TemplateAsClaimed
\* C15: d += s, s a str: afterwards the pending text of d is its previous
\* pending text followed by s, so that writes with no commit between them
\* leave the concatenation of their strings in order; no line object and no
\* committed line sequence has changed.
C15_WriteExtendsPending ==
    last.op = "iadd_str" =>
        /\ docs[last.d].buffer = last.pre.docs[last.d].buffer \o last.s
        /\ heap = last.pre.heap
        /\ \A e \in DOMAIN docs : docs[e].inner_html = last.pre.docs[e].inner_html
        /\ \A e \in DOMAIN docs \ {last.d} : docs[e].buffer = last.pre.docs[e].buffer

\* the second of two writes of different strings, on a document with lines
C15_Witness ==
    /\ last.op = "iadd_str"
    /\ last.pre.docs[last.d].buffer # EmptyStr
    /\ last.pre.docs[last.d].buffer # last.s
    /\ Len(PostLines) > 0
\* the integer of the delta argument of the last newline
LastDelta == IF last.indent.kind = "int" THEN last.indent.n ELSE to_int(last.indent.v)

\* the sum of the deltas of the lines ls
Total(ls) == SumTo(ls, Len(ls))

\* C16: d.newline(force, delta), delta an Indent member or an integer in
\* -1..1: afterwards the deltas of d's committed lines sum to their previous
\* sum plus the integer of delta, whether the call appended a line or merged
\* delta into the last line; so the sum over the lines of a document is the
\* sum of the delta arguments of its newline calls.
C16_DeltaSumConserved ==
    (last.op = "newline" /\ LastDelta \in -1..1) =>
        Total(PostLines) = Total(PreLines) + LastDelta

\* the same, for the calls that do not merge a delta into a last line whose
\* delta is the same and not nothing
DeltaSumConservedUnlessSameSign ==
    (/\ last.op = "newline" /\ LastDelta \in -1..1
     /\ ~(/\ ~last.force /\ last.pre.docs[last.d].buffer = EmptyStr
          /\ Len(PreLines) > 0 /\ LastDelta # 0
          /\ to_int(PreLines[Len(PreLines)].indent) = LastDelta))
        => Total(PostLines) = Total(PreLines) + LastDelta
\* the last d += o has not raised and has left d as appending a copy of o,
\* taken when the call began, leaves it: each line of o visited once
AppendedEachLineOnce ==
    /\ last.exc = "none"
    /\ DocState(Cur, last.d)
          = DocState(iadd_html(deepcopy(AsMemory(last.pre), last.o),
                               last.d, Len(last.pre.docs) + 1), last.d)

\* C17: d += o, o any document, d itself included: the call returns without
\* raising, having visited each committed line that o had when the call
\* began exactly once.
C17_AppendIsTotal ==
    last.op = "iadd_html" => AppendedEachLineOnce

\* the same, for o another document than d
AppendOfAnotherIsTotal ==
    (last.op = "iadd_html" /\ last.d # last.o) => AppendedEachLineOnce
\* C18: after self += other, other another document, every later call that
\* changes self (a newline that merges a delta into self's last line, which
\* came from other, among them) leaves the lines, deltas and pending text of
\* other as they were, and every later call that changes other leaves self
\* as it was.
C18_NoAliasingAfterAppend ==
    \A p \in last.after :
        (p[1] = "iadd" /\ last.op \in Mutations) =>
            /\ last.d = p[2] => SameAsBefore(p[3])
            /\ last.d = p[3] => SameAsBefore(p[2])

\* after self += other a newline has merged a delta into the last line of
\* self, which was appended for the last line of other
C18_Witness ==
    /\ last.op = "newline" /\ ~last.force
    /\ \E p \in last.after :
          /\ p[1] = "iadd" /\ p[2] = last.d
          /\ last.pre.docs[last.d].buffer = EmptyStr
          /\ last.pre.docs[p[3]].buffer = EmptyStr
          /\ Len(Lines(last.pre, p[3])) > 0
          /\ LET mine == Lines(last.pre, last.d)
                 theirs == Lines(last.pre, p[3])
             IN /\ Len(mine) > 0
                /\ mine[Len(mine)] = theirs[Len(theirs)]
                /\ theirs[Len(theirs)].line # EmptyStr
                /\ PostLines[Len(PostLines)] # theirs[Len(theirs)]
\* document d of memory m is the empty document Html()
IsEmpty(m, d) == m.docs[d].inner_html = <<>> /\ m.docs[d].buffer = EmptyStr

\* document d of memory m has no pending text and renders
Renderable(m, d) ==
    m.docs[d].buffer = EmptyStr /\ to_raw_html(AsMemory(m), d, 1).exc = "none"

\* the document the last + returned renders as document d did
RendersAs(d) ==
    /\ last.exc = "none"
    /\ \A n \in IndentSizes :
          to_raw_html(Cur, last.new, n) = to_raw_html(AsMemory(last.pre), d, n)

\* C19: for every document d with no pending text, Html() + d and d + Html()
\* render as d does: the empty document adds no line, no blank line either.
C19_EmptyIsIdentity ==
    (last.op = "add" /\ last.o # 0) =>
        /\ (IsEmpty(last.pre, last.d) /\ Renderable(last.pre, last.o)) => RendersAs(last.o)
        /\ (IsEmpty(last.pre, last.o) /\ Renderable(last.pre, last.d)) => RendersAs(last.d)

\* the same on the right only, for the documents d that have a line
EmptyIsRightIdentityOfNonEmpty ==
    (/\ last.op = "add" /\ last.o # 0
     /\ IsEmpty(last.pre, last.o) /\ Renderable(last.pre, last.d)
     /\ Len(Lines(last.pre, last.d)) > 0) => RendersAs(last.d)
====
